---- MODULE Spec2Model ----
(***************************************************************************)
(* Barcode-Generator-Scanner: the request dispatcher of the API client     *)
(* (uniqueKey, getKey, makeRequest, Api).                                   *)
(*                                                                         *)
(* JavaScript strings are modelled as sequences of one-character strings,  *)
(* so that charCodeAt, split, substring and concatenation are computed.    *)
(* JavaScript values are records [t, s]: t is the type tag and s a string  *)
(* (the characters of a string or boolean, the identity of an object or an *)
(* array, empty for undefined).                                            *)
(***************************************************************************)
EXTENDS Integers, Sequences, FiniteSets

(***************************************************************************)
(* Bounds of the model.                                                    *)
(***************************************************************************)
\* longest endpoint string handed to makeRequest
MaxPathLen == 4
\* most optional fields present in one RequestOptions bag
MaxMods == 1
\* longest input string of uniqueKey explored step by step
MaxHashLen == 6
\* Decode events in one behaviour of the scanner.
MaxDecodes == 6
\* generateBarcode runs awaiting their timer at one time.
MaxRuns == 3

(***************************************************************************)
(* Strings and characters.                                                 *)
(***************************************************************************)
\* The printable ASCII characters, code 32 (space) to 126 (~), in order; the
\* double quote (34), the backslash (92) and the backtick (96) are written
\* by name.
Ascii ==
    <<" ", "!", "dquote", "#", "$", "%", "&", "'", "(", ")", "*", "+", ",", "-", ".", "/",
       "0", "1", "2", "3", "4", "5", "6", "7", "8", "9", ":", ";", "<", "=", ">", "?",
       "@", "A", "B", "C", "D", "E", "F", "G", "H", "I", "J", "K", "L", "M", "N", "O",
       "P", "Q", "R", "S", "T", "U", "V", "W", "X", "Y", "Z", "[", "backslash", "]", "^", "_",
       "backtick", "a", "b", "c", "d", "e", "f", "g", "h", "i", "j", "k", "l", "m", "n", "o",
       "p", "q", "r", "s", "t", "u", "v", "w", "x", "y", "z", "{", "|", "}", "~">>

\* String.prototype.charCodeAt for one character.
CodeTable == [c \in {Ascii[i] : i \in 1..Len(Ascii)} |->
                 31 + CHOOSE i \in 1..Len(Ascii) : Ascii[i] = c]

CharCode(c) == CodeTable[c]

\* The alphabet of standard base64, value 0 to 63.
Base64Alphabet ==
    <<"A", "B", "C", "D", "E", "F", "G", "H", "I", "J", "K", "L", "M", "N", "O", "P",
       "Q", "R", "S", "T", "U", "V", "W", "X", "Y", "Z", "a", "b", "c", "d", "e", "f",
       "g", "h", "i", "j", "k", "l", "m", "n", "o", "p", "q", "r", "s", "t", "u", "v",
       "w", "x", "y", "z", "0", "1", "2", "3", "4", "5", "6", "7", "8", "9", "+", "/">>

RECURSIVE Concat(_)
\* The concatenation of a sequence of strings.
Concat(ss) == IF ss = <<>> THEN <<>> ELSE Head(ss) \o Concat(Tail(ss))

\* String.prototype.substring(from, to) with 0-based from and exclusive to.
Substring(s, from, to) ==
    LET lo == IF from > Len(s) THEN Len(s) ELSE from
        hi == IF to > Len(s) THEN Len(s) ELSE to
    IN SubSeq(s, lo + 1, hi)

RECURSIVE SplitFrom(_, _, _)
\* The pieces of s between occurrences of the character sep; cur is the
\* piece being read.
SplitFrom(s, sep, cur) ==
    IF s = <<>> THEN <<cur>>
    ELSE IF Head(s) = sep THEN <<cur>> \o SplitFrom(Tail(s), sep, <<>>)
    ELSE SplitFrom(Tail(s), sep, Append(cur, Head(s)))

\* String.prototype.split(sep) for a one-character separator.
Split(s, sep) == SplitFrom(s, sep, <<>>)

\* All strings over the characters cs of length at most n.
RECURSIVE StringsUpTo(_, _)
StringsUpTo(cs, n) ==
    IF n = 0 THEN {<<>>}
    ELSE LET shorter == StringsUpTo(cs, n - 1)
         IN shorter \cup {Append(s, c) : s \in shorter, c \in cs}

(***************************************************************************)
(* Signed 32-bit arithmetic.  A 32-bit integer is handled as its high,     *)
(* signed, and low, unsigned, 16-bit halves, so that no intermediate value *)
(* leaves the signed 32-bit range.                                         *)
(***************************************************************************)
MaxInt32 == 2147483646 + 1
MinInt32 == (-2147483646) - 2

Hi16(x) == x \div 65536
Lo16(x) == x % 65536

\* The signed 32-bit integer whose halves are hi and lo, hi taken modulo 2^16.
FromHalves(hi, lo) ==
    LET h == hi % 65536
    IN (IF h >= 32768 THEN h - 65536 ELSE h) * 65536 + lo

\* JavaScript's x << 5 on a signed 32-bit x.
ShiftLeft5(x) ==
    LET lo == Lo16(x) * 32
    IN FromHalves(Hi16(x) * 32 + (lo \div 65536), lo % 65536)

\* ToInt32(a - b + c) for signed 32-bit a, b and 0 <= c < 2^16: the value
\* that `code = a - b + c; code &= code` leaves in code.
SubAddToInt32(a, b, c) ==
    LET lo == Lo16(a) - Lo16(b) + c
    IN FromHalves(Hi16(a) - Hi16(b) + (lo \div 65536), lo % 65536)

(***************************************************************************)
(* uniqueKey: the rolling hash and its rendering.                          *)
(***************************************************************************)
\* HashUpdate with the subtraction and the addition swapped:
\*   code = (code << 5) - char + code
HashUpdateSwapped(code, char) == SubAddToInt32(ShiftLeft5(code), char, code)

\* One iteration of the loop of uniqueKey:
\*   code = (code << 5) - code + char;  code &= code;
HashUpdate(code, char) == SubAddToInt32(ShiftLeft5(code), code, char)

RECURSIVE HashLoop(_, _, _, _)
\* The iterations from <= i < to of the loop of uniqueKey, in order, code
\* being the loop's value before them.  The range is halved, and the first
\* half evaluated (done \in Int) before the second is entered, only to keep
\* TLC's evaluation shallow: the updates applied and their order are the
\* loop's.
HashLoop(input, from, to, code) ==
    IF to <= from THEN code
    ELSE IF to = from + 1 THEN HashUpdate(code, CharCode(input[from + 1]))
    ELSE LET mid == (from + to) \div 2
             done == HashLoop(input, from, mid, code)
         IN CASE done \in Int -> HashLoop(input, mid, to, done)

RECURSIVE DigitsOf(_)
\* The decimal digits of n >= 0.
DigitsOf(n) ==
    IF n < 10 THEN <<Ascii[17 + n]>>
    ELSE Append(DigitsOf(n \div 10), Ascii[17 + (n % 10)])

RECURSIVE DigitsOfNegative(_)
\* The decimal digits of -n for n <= 0, computed without negating n.
DigitsOfNegative(n) ==
    LET d == (10 - (n % 10)) % 10
        rest == (n + d) \div 10
    IN IF rest = 0 THEN <<Ascii[17 + d]>>
       ELSE Append(DigitsOfNegative(rest), Ascii[17 + d])

\* Number.prototype.toString() for a signed 32-bit integer.
NumberToString(n) ==
    IF n < 0 THEN <<"-">> \o DigitsOfNegative(n) ELSE DigitsOf(n)

NaNString == <<"N", "a", "N">>

\* code.toString() in uniqueKey: charCodeAt(0) of the empty string is NaN,
\* and the loop then does not run.
CodeToString(input) ==
    IF input = <<>> THEN NaNString
    ELSE NumberToString(HashLoop(input, 0, Len(input), CharCode(input[1])))

RECURSIVE Base64(_)
\* Buffer.from(s).toString("base64") for a string of ASCII characters.
Base64(s) ==
    LET b(i) == CharCode(s[i])
        ch(v) == Base64Alphabet[v + 1]
    IN IF Len(s) = 0 THEN <<>>
       ELSE IF Len(s) = 1
            THEN <<ch(b(1) \div 4), ch((b(1) % 4) * 16), "=", "=">>
       ELSE IF Len(s) = 2
            THEN <<ch(b(1) \div 4), ch((b(1) % 4) * 16 + (b(2) \div 16)),
                   ch((b(2) % 16) * 4), "=">>
       ELSE <<ch(b(1) \div 4), ch((b(1) % 4) * 16 + (b(2) \div 16)),
              ch((b(2) % 16) * 4 + (b(3) \div 64)), ch(b(3) % 64)>>
            \o Base64(SubSeq(s, 4, Len(s)))

\* uniqueKey without its substring(0, 8).
uniqueKeyWhole(input) == Base64(CodeToString(input))

\* uniqueKey(input)
uniqueKey(input) == Substring(Base64(CodeToString(input)), 0, 8)

(***************************************************************************)
(* JavaScript values.                                                      *)
(***************************************************************************)
Undefined == [t |-> "undefined", s |-> <<>>]
Null == [t |-> "null", s |-> <<>>]
Bool(b) == [t |-> "boolean",
            s |-> IF b THEN <<"t", "r", "u", "e">> ELSE <<"f", "a", "l", "s", "e">>]
Str(s) == [t |-> "string", s |-> s]
\* A plain object and an array; s tells one object, or one array, from another.
Obj(s) == [t |-> "object", s |-> s]
Arr(s) == [t |-> "array", s |-> s]

\* ToBoolean: what `if (v)`, `!v`, `v || w` and `v ? a : b` test.
Truthy(v) ==
    CASE v.t \in {"undefined", "null"} -> FALSE
      [] v.t = "boolean" -> v = Bool(TRUE)
      [] v.t = "string" -> v.s # <<>>
      [] OTHER -> TRUE

\* v || w
Or(v, w) == IF Truthy(v) THEN v ELSE w

\* StringOf with a plain object rendered by what it holds (as JSON.stringify
\* would) instead of as "[object Object]".
StringOfContents(v) ==
    CASE v.t = "undefined" -> <<"u", "n", "d", "e", "f", "i", "n", "e", "d">>
      [] OTHER -> v.s

\* ToString (the abstract operation): what `"..." + v` appends.  A plain object renders as
\* "[object Object]" whatever it holds; an array as its elements joined.
StringOf(v) ==
    CASE v.t = "undefined" -> <<"u", "n", "d", "e", "f", "i", "n", "e", "d">>
      [] v.t = "object" ->
           <<"[", "o", "b", "j", "e", "c", "t", " ", "O", "b", "j", "e", "c", "t", "]">>
      [] OTHER -> v.s

\* Array.isArray
IsArray(v) == v.t = "array"

\* arr[i] for a 0-based index: undefined outside the array.
ElementAt(arr, i) == IF i < Len(arr) THEN Str(arr[i + 1]) ELSE Undefined

\* String.prototype.toUpperCase on ASCII.
ToUpperCase(s) ==
    [i \in 1..Len(s) |->
        LET c == CharCode(s[i])
        IN IF c >= 97 /\ c <= 122 THEN Ascii[c - 32 - 31] ELSE s[i]]

(***************************************************************************)
(* Module constants of the API client.                                     *)
(***************************************************************************)
DATABASE == <<"<", "D", "B", "_", "N", "A", "M", "E", ">">>
BASE_URL ==
    <<"h", "t", "t", "p", "s", ":", "/", "/", "v", "5", ".",
      "f", "r", "o", "n", "t", "q", "l", ".", "d", "e", "v">>
local_host ==
    <<"h", "t", "t", "p", ":", "/", "/", "l", "o", "c", "a", "l", "h", "o", "s", "t",
      ":", "4", "4", "6", "6">>

(***************************************************************************)
(* new URL(local_host + url).pathname.  local_host ends inside the port,   *)
(* so url continues the port: a digit extends it, "/", "?", "#" or the     *)
(* backslash ends the authority, and any other character makes the URL     *)
(* invalid (new URL throws TypeError).                                     *)
(***************************************************************************)
Digits == {"0", "1", "2", "3", "4", "5", "6", "7", "8", "9"}

RECURSIVE PortDigits(_)
\* The digits at the start of s.
PortDigits(s) ==
    IF s # <<>> /\ Head(s) \in Digits THEN <<Head(s)>> \o PortDigits(Tail(s))
    ELSE <<>>

RECURSIVE DecimalValue(_, _)
\* The value of the digit string acc-then-s, capped above 65535.
DecimalValue(s, acc) ==
    IF s = <<>> \/ acc > 65535 THEN acc
    ELSE DecimalValue(Tail(s), acc * 10 + (CharCode(Head(s)) - 48))

\* Whether new URL(local_host + url) succeeds.
UrlParses(url) ==
    LET more == PortDigits(url)
        rest == SubSeq(url, Len(more) + 1, Len(url))
    IN /\ DecimalValue(more, 4466) <= 65535
       /\ rest = <<>> \/ Head(rest) \in {"/", "?", "#", "backslash"}

RECURSIVE PathOf(_)
\* The path of a URL's remainder: up to its query ("?") or fragment ("#").
PathOf(s) ==
    IF s = <<>> \/ Head(s) \in {"?", "#"} THEN <<>>
    ELSE <<IF Head(s) = "backslash" THEN "/" ELSE Head(s)>> \o PathOf(Tail(s))

\* new URL(local_host + url).pathname, for a url of unreserved characters,
\* "/", "?" and "#" (no dot segments, nothing to percent-encode).
Pathname(url) ==
    LET rest == SubSeq(url, Len(PortDigits(url)) + 1, Len(url))
        path == PathOf(rest)
    IN IF path = <<>> THEN <<"/">> ELSE path

(***************************************************************************)
(* getKey                                                                  *)
(***************************************************************************)
\* FirstSegment as the line commented out in getKey has it:
\*   const pathname = parsed_url.pathname;
FirstSegmentWholePath(url) == Pathname(url)

\* const pathname = "/" + parsed_url.pathname.split("/")[1];
FirstSegment(url) == <<"/">> \o StringOf(ElementAt(Split(Pathname(url), "/"), 1))

\* RequestOf with nearby moved behind validation.
RequestOfNearbyLast(options) ==
    << <<<<"f", "i", "e", "l", "d", "s">>, options.fields>>,
       <<<<"h", "i", "d", "d", "e", "n">>, options.hidden>>,
       <<<<"f", "i", "l", "t", "e", "r">>, options.filter>>,
       <<<<"c", "o", "l", "l", "e", "c", "t", "i", "o", "n", "s">>, options.joins>>,
       <<<<"p", "e", "r", "m", "i", "s", "s", "i", "o", "n", "s">>, options.permissions>>,
       <<<<"v", "a", "l", "i", "d", "a", "t", "i", "o", "n">>, options.validation>>,
       <<<<"n", "e", "a", "r", "b", "y">>, options.nearby>>,
       <<<<"b", "o", "d", "y", "_", "i", "s", "_", "a", "r", "r", "a", "y">>,
         Bool(IsArray(Or(options.body, Obj(<<>>))))>> >>

\* RequestOf with the query parameter page hashed too.
RequestOfWithPage(options) ==
    << <<<<"f", "i", "e", "l", "d", "s">>, options.fields>>,
       <<<<"h", "i", "d", "d", "e", "n">>, options.hidden>>,
       <<<<"f", "i", "l", "t", "e", "r">>, options.filter>>,
       <<<<"n", "e", "a", "r", "b", "y">>, options.nearby>>,
       <<<<"c", "o", "l", "l", "e", "c", "t", "i", "o", "n", "s">>, options.joins>>,
       <<<<"p", "e", "r", "m", "i", "s", "s", "i", "o", "n", "s">>, options.permissions>>,
       <<<<"v", "a", "l", "i", "d", "a", "t", "i", "o", "n">>, options.validation>>,
       <<<<"p", "a", "g", "e">>, options.page>>,
       <<<<"b", "o", "d", "y", "_", "i", "s", "_", "a", "r", "r", "a", "y">>,
         Bool(IsArray(Or(options.body, Obj(<<>>))))>> >>

\* The request object of getKey, as its (key, value) pairs in insertion
\* order, which is the order `for (const key in request)` visits them in.
RequestOf(options) ==
    << <<<<"f", "i", "e", "l", "d", "s">>, options.fields>>,
       <<<<"h", "i", "d", "d", "e", "n">>, options.hidden>>,
       <<<<"f", "i", "l", "t", "e", "r">>, options.filter>>,
       <<<<"n", "e", "a", "r", "b", "y">>, options.nearby>>,
       <<<<"c", "o", "l", "l", "e", "c", "t", "i", "o", "n", "s">>, options.joins>>,
       <<<<"p", "e", "r", "m", "i", "s", "s", "i", "o", "n", "s">>, options.permissions>>,
       <<<<"v", "a", "l", "i", "d", "a", "t", "i", "o", "n">>, options.validation>>,
       <<<<"b", "o", "d", "y", "_", "i", "s", "_", "a", "r", "r", "a", "y">>,
         Bool(IsArray(Or(options.body, Obj(<<>>))))>> >>

RECURSIVE TokenStrFromDefined(_, _, _)
\* TokenStrFrom with the test `request[key] !== undefined` in place of
\* `request[key]`: a false flag is appended too.
TokenStrFromDefined(request, i, tokenStr) ==
    IF i > Len(request) THEN tokenStr
    ELSE TokenStrFromDefined(request, i + 1,
            IF request[i][2] # Undefined
            THEN tokenStr \o request[i][1] \o <<":">> \o StringOf(request[i][2])
            ELSE tokenStr)

RECURSIVE TokenStrFrom(_, _, _)
\* The loop over the request's keys from the i-th pair (1-based) on:
\*   if (request[key]) tokenStr += key + ":" + request[key];
TokenStrFrom(request, i, tokenStr) ==
    IF i > Len(request) THEN tokenStr
    ELSE TokenStrFrom(request, i + 1,
            IF Truthy(request[i][2])
            THEN tokenStr \o request[i][1] \o <<":">> \o StringOf(request[i][2])
            ELSE tokenStr)

\* The string getKey hands to uniqueKey.
TokenStr(url, options) == TokenStrFrom(RequestOf(options), 1, FirstSegment(url))

\* getKey(method, url, options), for a url that new URL accepts.
getKey(method, url, options) ==
    method \o <<":">> \o FirstSegment(url) \o <<">">> \o uniqueKey(TokenStr(url, options))

(***************************************************************************)
(* RequestOptions.  `key` is never read and `loading` only guards comments, *)
(* so neither is modelled.                                                 *)
(***************************************************************************)
OptionNames ==
    {"body", "page", "sort", "joins", "filter", "search", "nearby", "hidden",
     "fields", "session", "validation", "permissions"}

\* options = {}
NoOptions == [n \in OptionNames |-> Undefined]

\* The values a field of RequestOptions takes: the declared types are records
\* (plain objects); a body is told apart by Array.isArray.
ObjectValues == {Obj(<<"1">>), Obj(<<"2">>)}
ValuesOf(name) == IF name = "body" THEN {Obj(<<"1">>), Arr(<<"1">>)} ELSE ObjectValues

RECURSIVE BagsUpTo(_)
\* The option bags with at most n fields present.
BagsUpTo(n) ==
    IF n = 0 THEN {NoOptions}
    ELSE LET fewer == BagsUpTo(n - 1)
         IN fewer \cup UNION {{[b EXCEPT ![f] = v] : v \in ValuesOf(f)}
                               : b \in fewer, f \in OptionNames}

\* The bags with every field present, the body an array.
FullBags ==
    {[n \in OptionNames |-> IF n = "body" THEN Arr(<<"1">>) ELSE v] : v \in ObjectValues}

OptionBags == BagsUpTo(MaxMods) \cup FullBags

\* type HttpMethod
HttpMethods ==
    {<<"g", "e", "t">>, <<"p", "o", "s", "t">>, <<"p", "u", "t">>,
     <<"d", "e", "l", "e", "t", "e">>, <<"s", "q", "l">>}

\* The characters endpoints are built from, and the endpoints of the
\* documented examples, with a query string, and two whose hash is small
\* (-87 and 6).
PathChars == {"/", "a"}
ExampleEndpoints ==
    {<<"/", "u", "s", "e", "r", "s", "/", "4", "2">>,
     <<"/", "o", "r", "d", "e", "r", "s">>,
     <<"/", "o", "r", "d", "e", "r", "s", "/", "9", "9">>,
     <<"/", "b">>, <<"/", "b", "/", "a">>,
     <<"?", "a">>, <<"/", "a", "?", "a">>, <<"/", "a", "?", "/", "a">>,
     <<"/", "a", "#", "a">>, <<"9", "/", "a">>,
     <<"/", "e", "z", "k", "f", "h", "p", "a">>,
     <<"/", "e", "z", "k", "f", "h", "s", "a">>}

Endpoints == StringsUpTo(PathChars, MaxPathLen) \cup ExampleEndpoints

(***************************************************************************)
(* State.                                                                  *)
(***************************************************************************)
VARIABLES
    \* the request dispatcher: one invocation of makeRequest
    typedTokens,    \* the Credential Table (tokens.json): fingerprint -> token
    pc,             \* "idle", "pending" (awaiting axios), "fulfilled", "rejected"
    args,           \* makeRequest's arguments: method, endpoint, options
    locals,         \* makeRequest's locals: headers, key, token, params
    requests,       \* the outbound HTTP calls issued, in order
    console,        \* the lines written by console.error, in order
    settled,        \* what the promise settled with: response data or the error
    call,           \* the function of Api that was called, and its endpoint argument
    \* getKey, in steps
    gkPc, gkMethod, gkUrl, gkOptions, gkPathname, gkTokenStr, gkKey,
    \* uniqueKey, in steps
    ukPc, ukInput, ukI, ukCode, ukResult,
    \* EnhancedBarcodeToolkit: the scanner's state
    showScanner, scannedResults, cameraError, isLoading,
    permission,     \* "none", or "asked" while startScanner awaits getUserMedia
    now,            \* the clock Date.now() reads, in decode events
    decodes,        \* history: the texts decoded since the history was last cleared
    \* EnhancedBarcodeToolkit: the generator's state
    barcodeData, barcodeFormat, barcodeSvgString, isGenerating, generationError,
    runs            \* the generateBarcode runs awaiting their timer, oldest first,
                    \* each with the barcodeData and barcodeFormat it closed over

dispatchVars == <<typedTokens, pc, args, locals, requests, console, settled, call>>
gkVars == <<gkPc, gkMethod, gkUrl, gkOptions, gkPathname, gkTokenStr, gkKey>>
ukVars == <<ukPc, ukInput, ukI, ukCode, ukResult>>
scanVars == <<showScanner, scannedResults, cameraError, isLoading, permission, now, decodes>>
genVars == <<barcodeData, barcodeFormat, barcodeSvgString, isGenerating, generationError, runs>>
uiVars == <<scanVars, genVars>>
apiVars == <<dispatchVars, gkVars, ukVars>>
vars == <<dispatchVars, gkVars, ukVars, uiVars>>

(***************************************************************************)
(* makeRequest                                                             *)
(***************************************************************************)
\* headers[name] = v
Put(headers, name, v) ==
    [n \in DOMAIN headers \cup {name} |-> IF n = name THEN v ELSE headers[n]]

\* if (v) headers[name] = v;
CopyIfPresent(headers, name, v) == IF Truthy(v) THEN Put(headers, name, v) ELSE headers

\* ModifierHeaders without its last copy, `if (nearby) headers.nearby = nearby;`.
ModifierHeadersNoNearby(options) ==
    LET h0 == [n \in {} |-> Undefined]
        h1 == CopyIfPresent(h0, "hidden", options.hidden)
        h2 == CopyIfPresent(h1, "filter", options.filter)
        h3 == CopyIfPresent(h2, "fields", options.fields)
        h4 == CopyIfPresent(h3, "session", options.session)
        h5 == CopyIfPresent(h4, "collections", options.joins)
        h6 == CopyIfPresent(h5, "validation", options.validation)
    IN CopyIfPresent(h6, "permissions", options.permissions)

\* const headers = {}; followed by the eight conditional copies.
ModifierHeaders(options) ==
    LET h0 == [n \in {} |-> Undefined]
        h1 == CopyIfPresent(h0, "hidden", options.hidden)
        h2 == CopyIfPresent(h1, "filter", options.filter)
        h3 == CopyIfPresent(h2, "fields", options.fields)
        h4 == CopyIfPresent(h3, "session", options.session)
        h5 == CopyIfPresent(h4, "collections", options.joins)
        h6 == CopyIfPresent(h5, "validation", options.validation)
        h7 == CopyIfPresent(h6, "permissions", options.permissions)
    IN CopyIfPresent(h7, "nearby", options.nearby)

\* typedTokens[key] || false
TokenFor(tokens, key) ==
    Or(IF key \in DOMAIN tokens THEN Str(tokens[key]) ELSE Undefined, Bool(FALSE))

\* AuthHeaders with the key header set whether or not a token was found.
AuthHeadersKeyAlways(headers, key, token) ==
    Put(IF Truthy(token) THEN Put(headers, "token", token) ELSE headers,
        "key", Str(key))

\* if (!token) headers["key"] = key; else headers.token = token;
AuthHeaders(headers, key, token) ==
    IF ~Truthy(token) THEN Put(headers, "key", Str(key))
    ELSE Put(headers, "token", token)

\* BaseURLFor with the primary endpoint whatever the lookup gave.
BaseURLForPrimaryAlways(token) == BASE_URL

\* baseURL: token ? _BASE_URL : local_host
BaseURLFor(token) == IF Truthy(token) THEN BASE_URL ELSE local_host

\* const params = { page, sort, search };
ParamsOf(options) ==
    [page |-> options.page, sort |-> options.sort, search |-> options.search]

\* The call axiosInstance(requestConfig) of an instance created with baseURL
\* and the app header.
AxiosCall(method, endpoint, options, headers, token) ==
    [baseURL |-> BaseURLFor(token),
     app |-> DATABASE,
     method |-> method,
     params |-> ParamsOf(options),
     headers |-> headers,
     data |-> options.body,
     url |-> endpoint]

NoLocals == [headers |-> [n \in {} |-> Undefined], key |-> <<>>,
             token |-> Undefined, params |-> ParamsOf(NoOptions)]

\* What new URL throws on a string it cannot parse.
InvalidURL == [t |-> "error",
               s |-> <<"I", "n", "v", "a", "l", "i", "d", " ", "U", "R", "L">>]

\* makeRequest(method, endpoint, options) up to its await.  getKey runs
\* before the try block: when new URL throws, the promise is rejected with
\* no request issued and nothing logged.
makeRequest(method, endpoint, options) ==
    /\ args' = [method |-> method, endpoint |-> endpoint, options |-> options]
    /\ IF ~UrlParses(endpoint)
       THEN /\ pc' = "rejected"
            /\ settled' = InvalidURL
            /\ locals' = [NoLocals EXCEPT !.headers = ModifierHeaders(options)]
            /\ UNCHANGED requests
       ELSE \E key \in {getKey(method, endpoint, options)} :
            \E token \in {TokenFor(typedTokens, key)} :
            \E headers \in {AuthHeaders(ModifierHeaders(options), key, token)} :
               /\ locals' = [headers |-> headers, key |-> key, token |-> token,
                             params |-> ParamsOf(options)]
               /\ requests' = Append(requests,
                                 AxiosCall(method, endpoint, options, headers, token))
               /\ pc' = "pending"
               /\ UNCHANGED settled
    /\ UNCHANGED <<typedTokens, console>>

\* The methods Api.get, Api.put, Api.post and Api.delete dispatch with.
ApiMethods == HttpMethods \ {<<"s", "q", "l">>}

\* Api.get, Api.put, Api.post, Api.delete, on a dispatcher with no invocation
\* begun.
ApiCall ==
    /\ pc = "idle"
    /\ \E method \in ApiMethods, endpoint \in Endpoints, options \in OptionBags :
          /\ call' = [fn |-> method, endpoint |-> endpoint]
          /\ makeRequest(method, endpoint, options)
    /\ UNCHANGED <<gkVars, ukVars, uiVars>>

RECURSIVE ReplaceFirst(_, _, _)
\* String.prototype.replace with a string pattern: the first occurrence of
\* pattern in s, wherever it is, gives way to replacement.
ReplaceFirst(s, pattern, replacement) ==
    IF Len(s) < Len(pattern) THEN s
    ELSE IF SubSeq(s, 1, Len(pattern)) = pattern
         THEN replacement \o SubSeq(s, Len(pattern) + 1, Len(s))
         ELSE <<s[1]>> \o ReplaceFirst(Tail(s), pattern, replacement)

\* `/sql-${endpoint.replace("/", "")}`
SqlPath(endpoint) == <<"/", "s", "q", "l", "-">> \o ReplaceFirst(endpoint, <<"/">>, <<>>)

\* Api.sql, on a dispatcher with no invocation begun.
ApiSql ==
    /\ pc = "idle"
    /\ \E endpoint \in Endpoints, options \in OptionBags :
          /\ call' = [fn |-> <<"s", "q", "l">>, endpoint |-> endpoint]
          /\ makeRequest(<<"p", "o", "s", "t">>, SqlPath(endpoint), options)
    /\ UNCHANGED <<gkVars, ukVars, uiVars>>

\* What the backend answers with (response.data).
ResponseData == {Obj(<<"r">>)}

\* The errors axios rejects with: no response (network, timeout) or a
\* response outside 2xx.
TransportErrors ==
    {[t |-> "error", s |-> <<"N", "e", "t", "w", "o", "r", "k", " ", "E", "r", "r", "o", "r">>],
     [t |-> "error", s |-> <<"4", "0", "4">>]}

\* const response = await axiosInstance(requestConfig); return response.data;
RequestSucceeds ==
    /\ pc = "pending"
    /\ \E data \in ResponseData : settled' = data
    /\ pc' = "fulfilled"
    /\ UNCHANGED <<typedTokens, args, locals, requests, console, call, gkVars, ukVars, uiVars>>

\* CatchBlock with a retry: the error is logged and the call issued again.
CatchBlockRetry(error) ==
    /\ console' = Append(console,
                     <<ToUpperCase(args.method) \o <<" ", "E", "r", "r", "o", "r", ":">>,
                       error.s>>)
    /\ requests' = Append(requests, requests[Len(requests)])
    /\ UNCHANGED <<typedTokens, pc, args, locals, settled>>

\* The catch block, with the error the awaited call rejected with:
\*   console.error(`${method.toUpperCase()} Error:`, error.message); throw error;
CatchBlock(error) ==
    /\ console' = Append(console,
                     <<ToUpperCase(args.method) \o <<" ", "E", "r", "r", "o", "r", ":">>,
                       error.s>>)
    /\ settled' = error
    /\ pc' = "rejected"
    /\ UNCHANGED <<typedTokens, args, locals, requests>>

RequestFails ==
    /\ pc = "pending"
    /\ \E error \in TransportErrors : CatchBlock(error)
    /\ UNCHANGED <<call, gkVars, ukVars, uiVars>>

(***************************************************************************)
(* getKey, in steps: the pathname, the token string, the key.              *)
(***************************************************************************)
\* const _url = local_host + url; const parsed_url = new URL(_url);
\* const pathname = "/" + parsed_url.pathname.split("/")[1];
GetKeyPathname ==
    /\ gkPc = "called"
    /\ IF UrlParses(gkUrl)
       THEN gkPathname' = FirstSegment(gkUrl) /\ gkPc' = "parsed"
       ELSE gkPathname' = gkPathname /\ gkPc' = "threw"
    /\ UNCHANGED <<gkMethod, gkUrl, gkOptions, gkTokenStr, gkKey, dispatchVars, ukVars, uiVars>>

\* const request = {...}; request["body_is_array"] = ...;
\* let tokenStr = pathname; for (const key in request) ...
GetKeyTokenStr ==
    /\ gkPc = "parsed"
    /\ gkTokenStr' = TokenStrFrom(RequestOf(gkOptions), 1, gkPathname)
    /\ gkPc' = "built"
    /\ UNCHANGED <<gkMethod, gkUrl, gkOptions, gkPathname, gkKey, dispatchVars, ukVars, uiVars>>

\* const key = method + ":" + pathname + ">" + uniqueKey(tokenStr); return key;
GetKeyReturn ==
    /\ gkPc = "built"
    /\ gkKey' = gkMethod \o <<":">> \o gkPathname \o <<">">> \o uniqueKey(gkTokenStr)
    /\ gkPc' = "returned"
    /\ UNCHANGED <<gkMethod, gkUrl, gkOptions, gkPathname, gkTokenStr, dispatchVars, ukVars, uiVars>>

(***************************************************************************)
(* uniqueKey, in steps: the seed, one loop iteration at a time, the        *)
(* rendering.  ukCode.nan tells the NaN that charCodeAt(0) gives for the   *)
(* empty string.                                                           *)
(***************************************************************************)
\* let code = input.charCodeAt(0);
HashSeed ==
    /\ ukPc = "called"
    /\ ukCode' = IF ukInput = <<>> THEN [nan |-> TRUE, v |-> 0]
                 ELSE [nan |-> FALSE, v |-> CharCode(ukInput[1])]
    /\ ukI' = 0
    /\ ukPc' = "loop"
    /\ UNCHANGED <<ukInput, ukResult, dispatchVars, gkVars, uiVars>>

\* for (let i = 0; i < input.length; i++) { ... }: one iteration
HashStep ==
    /\ ukPc = "loop"
    /\ ukI < Len(ukInput)
    /\ ukCode' = [nan |-> FALSE, v |-> HashUpdate(ukCode.v, CharCode(ukInput[ukI + 1]))]
    /\ ukI' = ukI + 1
    /\ UNCHANGED <<ukPc, ukInput, ukResult, dispatchVars, gkVars, uiVars>>

\* return Buffer.from(code.toString()).toString("base64").substring(0, 8);
HashReturn ==
    /\ ukPc = "loop"
    /\ ukI >= Len(ukInput)
    /\ ukResult' = Substring(Base64(IF ukCode.nan THEN NaNString
                                    ELSE NumberToString(ukCode.v)), 0, 8)
    /\ ukPc' = "returned"
    /\ UNCHANGED <<ukInput, ukI, ukCode, dispatchVars, gkVars, uiVars>>

(***************************************************************************)
(* Credential Tables and input strings.                                    *)
(***************************************************************************)
\* The fingerprints a provisioned table holds: those of the bare calls to
\* "/users/42" and to "/a".
ProvisionedKeys ==
    {getKey(m, e, NoOptions) :
        m \in ApiMethods,
        e \in {<<"/", "u", "s", "e", "r", "s", "/", "4", "2">>, <<"/", "a">>}}

\* The empty table, and a provisioned one: a token for the get and post
\* fingerprints, an empty string for the others.
CredentialTables ==
    {[k \in {} |-> <<>>],
     [k \in ProvisionedKeys |->
        IF k[1] \in {"g", "p"} /\ k[2] \in {"e", "o"}
        THEN <<"a", "b", "c", "1", "2", "3">> ELSE <<>>]}

\* The characters and the inputs uniqueKey is stepped on.
HashChars == {"!", "/", "a", "~"}
HashInputs == StringsUpTo(HashChars, MaxHashLen)

(***************************************************************************)
(* EnhancedBarcodeToolkit and BarScanner: the scanner.  The child's         *)
(* lastError is not kept: it is set only by an error that is passed to the *)
(* parent, which closes the scanner and so unmounts the child.             *)
(***************************************************************************)
RECURSIVE TrimStart(_)
\* The string without its leading spaces.
TrimStart(s) == IF s # <<>> /\ Head(s) = " " THEN TrimStart(Tail(s)) ELSE s

RECURSIVE TrimEnd(_)
\* The string without its trailing spaces.
TrimEnd(s) ==
    IF s # <<>> /\ s[Len(s)] = " " THEN TrimEnd(SubSeq(s, 1, Len(s) - 1)) ELSE s

\* Trim with nothing removed.
TrimNothing(s) == s

\* String.prototype.trim, on strings whose only white space is the space.
Trim(s) == TrimEnd(TrimStart(s))

\* Includes as a test of equality with the whole string.
IncludesWhole(s, part) == s = part

\* String.prototype.includes
Includes(s, part) ==
    \E i \in 0..(Len(s) - Len(part)) : SubSeq(s, i + 1, i + Len(part)) = part

\* 'No MultiFormat Readers'
NoReadersText ==
    <<"N", "o", " ", "M", "u", "l", "t", "i", "F", "o", "r", "m", "a", "t",
      " ", "R", "e", "a", "d", "e", "r", "s">>

\* What the decoder reports for a frame in which nothing was recognised.
DecodeNoise ==
    [t |-> "error",
     s |-> NoReadersText \o
          <<" ", "w", "e", "r", "e", " ", "a", "b", "l", "e", " ", "t", "o",
            " ", "d", "e", "t", "e", "c", "t", " ", "t", "h", "e", " ", "c",
            "o", "d", "e", ".">>]

\* A hard failure reported as an exception, and one reported as a string.
CameraFailure ==
    [t |-> "error",
     s |->
        <<"P", "e", "r", "m", "i", "s", "s", "i", "o", "n", " ", "d", "e",
          "n", "i", "e", "d">>]
CameraFailureText ==
    Str(
        <<"R", "e", "q", "u", "e", "s", "t", "e", "d", " ", "d", "e", "v",
          "i", "c", "e", " ", "n", "o", "t", " ", "f", "o", "u", "n", "d">>)

ErrorEvents == {DecodeNoise, CameraFailure, CameraFailureText}

\* err.message
MessageOf(err) == IF err.t = "error" THEN Str(err.s) ELSE Undefined

\* The texts a decode delivers: null, empty, blank, and two with content.
DecodeTexts ==
    {Null, Str(<<>>), Str(<<" ">>), Str(<<"A">>), Str(<<" ", "B", " ">>)}

\* The messages of setCameraError.
UnableToAccess ==
    Str(
        <<"U", "n", "a", "b", "l", "e", " ", "t", "o", " ", "a", "c", "c",
          "e", "s", "s", " ", "c", "a", "m", "e", "r", "a", ".", " ", "P",
          "l", "e", "a", "s", "e", " ", "c", "h", "e", "c", "k", " ", "p",
          "e", "r", "m", "i", "s", "s", "i", "o", "n", "s", " ", "a", "n",
          "d", " ", "t", "r", "y", " ", "a", "g", "a", "i", "n", ".">>)
AccessDenied ==
    Str(
        <<"C", "a", "m", "e", "r", "a", " ", "a", "c", "c", "e", "s", "s",
          " ", "d", "e", "n", "i", "e", "d", ".", " ", "P", "l", "e", "a",
          "s", "e", " ", "e", "n", "a", "b", "l", "e", " ", "c", "a", "m",
          "e", "r", "a", " ", "p", "e", "r", "m", "i", "s", "s", "i", "o",
          "n", "s", " ", "a", "n", "d", " ", "t", "r", "y", " ", "a", "g",
          "a", "i", "n", ".">>)

\* arr.slice(from, to)
Slice(arr, from, to) ==
    SubSeq(arr, from + 1, IF to < Len(arr) THEN to ELSE Len(arr))

\* The history with every earlier entry kept.
HistoryKeepingAll(newResult, prev) == <<newResult>> \o prev

\* [newResult, ...prev.slice(0, 4)]
HistoryAfter(newResult, prev) == <<newResult>> \o Slice(prev, 0, 4)

\* handleScan of EnhancedBarcodeToolkit
ToolkitHandleScan(data) ==
    IF Truthy(data) /\ Truthy(Str(Trim(data.s)))
    THEN /\ scannedResults' =
              HistoryAfter([text |-> Trim(data.s), timestamp |-> now], scannedResults)
         /\ showScanner' = FALSE
         /\ isLoading' = FALSE
    ELSE UNCHANGED <<scannedResults, showScanner, isLoading>>

\* handleScan of BarScanner
ScannerHandleScan(data) ==
    IF Truthy(data) THEN ToolkitHandleScan(data)
    ELSE UNCHANGED <<scannedResults, showScanner, isLoading>>

\* handleScanError of EnhancedBarcodeToolkit
HandleScanError(err) ==
    /\ cameraError' = UnableToAccess
    /\ showScanner' = FALSE
    /\ isLoading' = FALSE

\* handleError of BarScanner: reading includes of a message that is
\* undefined throws, and nothing is set.
HandleError(err) ==
    IF MessageOf(err) = Undefined
    THEN UNCHANGED <<cameraError, showScanner, isLoading>>
    ELSE IF ~Includes(MessageOf(err).s, NoReadersText)
         THEN HandleScanError(err)
         ELSE UNCHANGED <<cameraError, showScanner, isLoading>>

\* onUpdate(null, result) of the mounted scanner: a decode.
Decoded(data) ==
    /\ showScanner
    /\ now < MaxDecodes
    /\ ScannerHandleScan(data)
    /\ now' = now + 1
    /\ decodes' = Append(decodes, data)
    /\ UNCHANGED <<cameraError, permission, genVars, apiVars>>

ScannerDecodes == \E data \in DecodeTexts : Decoded(data)

\* onUpdate(err) and onError(err) of the mounted scanner.
Failed(err) ==
    /\ showScanner
    /\ HandleError(err)
    /\ UNCHANGED <<scannedResults, permission, now, decodes, genVars, apiVars>>

ScannerFails == \E err \in ErrorEvents : Failed(err)

\* startScanner up to its await; its button is shown while the scanner is
\* not, and is disabled while isLoading.
StartScanner ==
    /\ ~showScanner
    /\ ~isLoading
    /\ isLoading' = TRUE
    /\ cameraError' = Null
    /\ permission' = "asked"
    /\ UNCHANGED <<showScanner, scannedResults, now, decodes, genVars, apiVars>>

\* startScanner after getUserMedia resolved
PermissionGranted ==
    /\ permission = "asked"
    /\ showScanner' = TRUE
    /\ permission' = "none"
    /\ UNCHANGED <<scannedResults, cameraError, isLoading, now, decodes, genVars, apiVars>>

\* startScanner after getUserMedia rejected, with isLoading left set.
PermissionDeniedStillLoading ==
    /\ permission = "asked"
    /\ cameraError' = AccessDenied
    /\ permission' = "none"
    /\ UNCHANGED <<showScanner, scannedResults, isLoading, now, decodes, genVars, apiVars>>

\* startScanner after getUserMedia rejected
PermissionDenied ==
    /\ permission = "asked"
    /\ cameraError' = AccessDenied
    /\ isLoading' = FALSE
    /\ permission' = "none"
    /\ UNCHANGED <<showScanner, scannedResults, now, decodes, genVars, apiVars>>

\* stopScanner, the onStop of the mounted scanner
StopScanner ==
    /\ showScanner
    /\ showScanner' = FALSE
    /\ isLoading' = FALSE
    /\ UNCHANGED <<scannedResults, cameraError, permission, now, decodes, genVars, apiVars>>

\* clearScanHistory; its button is shown while the history is not empty.
ClearScanHistory ==
    /\ Len(scannedResults) > 0
    /\ scannedResults' = <<>>
    /\ decodes' = <<>>
    /\ UNCHANGED <<showScanner, cameraError, isLoading, permission, now, genVars, apiVars>>

\* The scanner's state when the component has mounted.
ScannerMounted ==
    /\ showScanner = FALSE
    /\ scannedResults = <<>>
    /\ cameraError = Null
    /\ isLoading = FALSE
    /\ permission = "none"
    /\ now = 0
    /\ decodes = <<>>

(***************************************************************************)
(* EnhancedBarcodeToolkit: the generator.  An edit re-renders the          *)
(* component, and the effect on [generateBarcode] then starts a run of the *)
(* new callback; the timers of the runs fire in the order they were set.   *)
(***************************************************************************)
\* useState('https://example.com')
ExampleUrl ==
    <<"h", "t", "t", "p", "s", ":", "/", "/", "e", "x", "a", "m", "p", "l",
      "e", ".", "c", "o", "m">>

\* The contents the input is edited to: the initial one, the empty one, a
\* blank one, and two digits between spaces.
Contents == {ExampleUrl, <<>>, <<" ">>, <<" ", "1", "2", " ">>}

\* The values of BARCODE_FORMATS.
CODE128 == <<"C", "O", "D", "E", "1", "2", "8">>
EAN13 == <<"E", "A", "N", "1", "3">>
UPC == <<"U", "P", "C">>
CODE39 == <<"C", "O", "D", "E", "3", "9">>
ITF == <<"I", "T", "F">>
BARCODE_FORMATS == {CODE128, EAN13, UPC, CODE39, ITF}

\* Every character of s is one of cs.
AllIn(s, cs) == \A i \in 1..Len(s) : s[i] \in cs

\* The characters CODE39 encodes.
Code39Chars ==
    Digits \cup {"A", "B", "C", "D", "E", "F", "G", "H", "I", "J", "K", "L", "M",
                 "N", "O", "P", "Q", "R", "S", "T", "U", "V", "W", "X", "Y", "Z",
                 "-", ".", " ", "$", "/", "+", "%"}

\* Whether JsBarcode renders text in format: any text in CODE128, twelve
\* digits in EAN13, eleven in UPC, an even number of digits in ITF, and the
\* characters of CODE39, upper-cased, in CODE39.  Texts with a check digit
\* are not among Contents.
Accepts(text, format) ==
    /\ text # <<>>
    /\ CASE format = CODE128 -> TRUE
         [] format = EAN13 -> AllIn(text, Digits) /\ Len(text) = 12
         [] format = UPC -> AllIn(text, Digits) /\ Len(text) = 11
         [] format = ITF -> AllIn(text, Digits) /\ Len(text) % 2 = 0
         [] format = CODE39 -> AllIn(ToUpperCase(text), Code39Chars)

\* svgNode.outerHTML after JsBarcode rendered text in format: markup that
\* tells the text and the format.
Render(text, format) == Str(<<"<", "s", "v", "g", " ">> \o format \o <<" ">> \o text \o <<">">>)

\* The exception JsBarcode throws for a text the format does not take.
InvalidInput(text, format) ==
    [t |-> "error",
     s |-> <<"dquote">> \o text \o
           <<"dquote", " ", "i", "s", " ", "n", "o", "t", " ", "a", " ", "v",
             "a", "l", "i", "d", " ", "i", "n", "p", "u", "t", " ", "f", "o",
             "r", " ">>
           \o format]

\* 'Failed to generate barcode. Please check your input.'
FailedToGenerate ==
    Str(
        <<"F", "a", "i", "l", "e", "d", " ", "t", "o", " ", "g", "e", "n",
          "e", "r", "a", "t", "e", " ", "b", "a", "r", "c", "o", "d", "e",
          ".", " ", "P", "l", "e", "a", "s", "e", " ", "c", "h", "e", "c",
          "k", " ", "y", "o", "u", "r", " ", "i", "n", "p", "u", "t", ".">>)

\* generateBarcode up to its await, with the barcodeData and barcodeFormat
\* the callback closed over.
GenerateBarcode(data, format) ==
    IF ~Truthy(Str(Trim(data)))
    THEN /\ barcodeSvgString' = Null
         /\ UNCHANGED <<isGenerating, generationError, runs>>
    ELSE /\ Len(runs) < MaxRuns
         /\ isGenerating' = TRUE
         /\ generationError' = Null
         /\ runs' = Append(runs, [data |-> data, format |-> format])
         /\ UNCHANGED barcodeSvgString

\* setBarcodeData (the input's onChange, useScannedResult) with a new
\* content, and the effect that follows the render.
SetBarcodeData(text) ==
    /\ text # barcodeData
    /\ barcodeData' = text
    /\ GenerateBarcode(text, barcodeFormat)
    /\ UNCHANGED <<barcodeFormat, scanVars, apiVars>>

EditContent == \E text \in Contents : SetBarcodeData(text)

\* setBarcodeFormat (the select's onChange) with another format, and the
\* effect that follows the render.
SetBarcodeFormat(format) ==
    /\ format # barcodeFormat
    /\ barcodeFormat' = format
    /\ GenerateBarcode(barcodeData, format)
    /\ UNCHANGED <<barcodeData, scanVars, apiVars>>

EditFormat == \E format \in BARCODE_FORMATS : SetBarcodeFormat(format)

\* The catch block of generateBarcode with the svg left as it was.
GenerationCatchKeepingSvg(err) ==
    /\ generationError' = Or(MessageOf(err), FailedToGenerate)
    /\ UNCHANGED barcodeSvgString

\* The catch block of generateBarcode
GenerationCatch(err) ==
    /\ generationError' = Or(MessageOf(err), FailedToGenerate)
    /\ barcodeSvgString' = Null

\* generateBarcode from its await on, for the run whose timer fires: the
\* oldest.
RunResumes ==
    /\ runs # <<>>
    /\ \E text \in {Trim(Head(runs).data)}, format \in {Head(runs).format} :
          IF Accepts(text, format)
          THEN /\ barcodeSvgString' = Render(text, format)
               /\ UNCHANGED generationError
          ELSE GenerationCatch(InvalidInput(text, format))
    /\ isGenerating' = FALSE
    /\ runs' = Tail(runs)
    /\ UNCHANGED <<barcodeData, barcodeFormat, scanVars, apiVars>>

\* The generator's state when the component has mounted and its effect has
\* started the first run.
GeneratorMounted ==
    /\ barcodeData = ExampleUrl
    /\ barcodeFormat = CODE128
    /\ barcodeSvgString = Null
    /\ isGenerating = TRUE
    /\ generationError = Null
    /\ runs = <<[data |-> ExampleUrl, format |-> CODE128]>>

(***************************************************************************)
(* Specifications.                                                         *)
(***************************************************************************)
DispatchIdle ==
    /\ pc = "idle"
    /\ args = [method |-> <<>>, endpoint |-> <<>>, options |-> NoOptions]
    /\ locals = NoLocals
    /\ requests = <<>>
    /\ console = <<>>
    /\ settled = Undefined
    /\ call = [fn |-> <<>>, endpoint |-> <<>>]

GetKeyIdle ==
    /\ gkPc = "idle"
    /\ gkMethod = <<>>
    /\ gkUrl = <<>>
    /\ gkOptions = NoOptions
    /\ gkPathname = <<>>
    /\ gkTokenStr = <<>>
    /\ gkKey = <<>>

UniqueKeyIdle ==
    /\ ukPc = "idle"
    /\ ukInput = <<>>
    /\ ukI = 0
    /\ ukCode = [nan |-> FALSE, v |-> 0]
    /\ ukResult = <<>>

\* The dispatcher: one call through Api against any Credential Table.
Init ==
    /\ typedTokens \in CredentialTables
    /\ DispatchIdle
    /\ GetKeyIdle
    /\ UniqueKeyIdle
    /\ ScannerMounted
    /\ GeneratorMounted

Next == ApiCall \/ ApiSql \/ RequestSucceeds \/ RequestFails

Spec == Init /\ [][Next]_vars

\* getKey on any method, url and options.
InitKey ==
    /\ typedTokens = [k \in {} |-> <<>>]
    /\ DispatchIdle
    /\ gkPc = "called"
    /\ gkMethod \in HttpMethods
    /\ gkUrl \in Endpoints
    /\ gkOptions \in OptionBags
    /\ gkPathname = <<>>
    /\ gkTokenStr = <<>>
    /\ gkKey = <<>>
    /\ UniqueKeyIdle
    /\ ScannerMounted
    /\ GeneratorMounted

NextKey == GetKeyPathname \/ GetKeyTokenStr \/ GetKeyReturn

SpecKey == InitKey /\ [][NextKey]_vars

\* uniqueKey on any input string.
InitHash ==
    /\ typedTokens = [k \in {} |-> <<>>]
    /\ DispatchIdle
    /\ GetKeyIdle
    /\ ukPc = "called"
    /\ ukInput \in HashInputs
    /\ ukI = 0
    /\ ukCode = [nan |-> FALSE, v |-> 0]
    /\ ukResult = <<>>
    /\ ScannerMounted
    /\ GeneratorMounted

NextHash == HashSeed \/ HashStep \/ HashReturn

SpecHash == InitHash /\ [][NextHash]_vars

\* The scanner of the mounted component.
InitScan ==
    /\ typedTokens = [k \in {} |-> <<>>]
    /\ DispatchIdle
    /\ GetKeyIdle
    /\ UniqueKeyIdle
    /\ ScannerMounted
    /\ GeneratorMounted

NextScan ==
    \/ StartScanner
    \/ PermissionGranted
    \/ PermissionDenied
    \/ ScannerDecodes
    \/ ScannerFails
    \/ StopScanner
    \/ ClearScanHistory

SpecScan == InitScan /\ [][NextScan]_vars

\* The scanner where a camera permission request that was made settles: the
\* promise of getUserMedia is resolved or rejected.
PermissionSettles == PermissionGranted \/ PermissionDenied

SpecScanFair == InitScan /\ [][NextScan]_vars /\ WF_vars(PermissionSettles)

\* The generator of the mounted component.
InitGen ==
    /\ typedTokens = [k \in {} |-> <<>>]
    /\ DispatchIdle
    /\ GetKeyIdle
    /\ UniqueKeyIdle
    /\ ScannerMounted
    /\ GeneratorMounted

NextGen == EditContent \/ EditFormat \/ RunResumes

SpecGen == InitGen /\ [][NextGen]_vars

(***************************************************************************)
(* Properties of the dispatcher (specification Spec).                      *)
(***************************************************************************)
\* The authentication headers of an outbound call.
AuthOf(request) ==
    [n \in DOMAIN request.headers \cap {"token", "key"} |-> request.headers[n]]

\* C1: every outbound request carries exactly one of the two authentication
\* headers, token or key, never both and never neither, for every operation
\* and every Credential Table.
C1_ExactlyOneAuthHeader ==
    \A i \in 1..Len(requests) :
        Cardinality(DOMAIN requests[i].headers \cap {"token", "key"}) = 1

\* A call was issued for a fingerprint the table holds a token for.
C1_Witness ==
    /\ pc = "pending"
    /\ Len(requests) = 1
    /\ "token" \in DOMAIN requests[1].headers

\* C2 as stated: routing is decided by the table lookup alone.  When the
\* operation's fingerprint is a key of the table, the request carries the
\* stored value as its token header and goes to the primary endpoint,
\* whatever the stored value is; when it is not a key, the request carries
\* the fingerprint as its key header and goes to the local fallback.
C2_Original ==
    pc = "pending" =>
        IF locals.key \in DOMAIN typedTokens
        THEN /\ AuthOf(requests[1]) = [n \in {"token"} |-> Str(typedTokens[locals.key])]
             /\ requests[1].baseURL = BASE_URL
        ELSE /\ AuthOf(requests[1]) = [n \in {"key"} |-> Str(locals.key)]
             /\ requests[1].baseURL = local_host

\* C2: routing is decided by the table lookup alone.  When the operation's
\* fingerprint is a key of the table and the value stored under it is not the
\* empty string, the request carries the stored value as its token header and
\* goes to the primary endpoint; when the fingerprint is not a key, or the
\* stored value is the empty string, the request carries the fingerprint as
\* its key header and goes to the local fallback.
C2_RoutingByLookup ==
    pc = "pending" =>
        IF locals.key \in DOMAIN typedTokens /\ typedTokens[locals.key] # <<>>
        THEN /\ AuthOf(requests[1]) = [n \in {"token"} |-> Str(typedTokens[locals.key])]
             /\ requests[1].baseURL = BASE_URL
        ELSE /\ AuthOf(requests[1]) = [n \in {"key"} |-> Str(locals.key)]
             /\ requests[1].baseURL = local_host

\* A call was issued for a fingerprint stored with the empty string.
C2_Witness ==
    /\ pc = "pending"
    /\ locals.key \in DOMAIN typedTokens
    /\ typedTokens[locals.key] = <<>>
    /\ requests[1].baseURL = local_host

\* The options with the query parameters page, sort and search absent.
WithoutParams(options) ==
    [options EXCEPT !.page = Undefined, !.sort = Undefined, !.search = Undefined]

\* C4: operations identical except for the values or the presence of page,
\* sort and search have identical fingerprints and are routed alike.  Every
\* such operation is compared with the one of its class that has none of the
\* three: the fingerprint it was dispatched with is that operation's, and so
\* are its endpoint and its token or key header.
C4_ParamsDoNotRoute ==
    pc = "pending" =>
        \E bare \in {getKey(args.method, args.endpoint, WithoutParams(args.options))} :
            /\ locals.key = bare
            /\ requests[1].baseURL = BaseURLFor(TokenFor(typedTokens, bare))
            /\ AuthOf(requests[1]) =
                 AuthHeaders([n \in {} |-> Undefined], bare, TokenFor(typedTokens, bare))

\* A call with a page parameter was routed with the token of the bare call.
C4_Witness ==
    /\ pc = "pending"
    /\ Truthy(args.options.page)
    /\ "token" \in DOMAIN requests[1].headers
    /\ requests[1].params.page = args.options.page

\* The header each modifier of an operation travels under.
HeaderOfModifier ==
    [fields |-> "fields", hidden |-> "hidden", filter |-> "filter",
     session |-> "session", joins |-> "collections",
     validation |-> "validation", permissions |-> "permissions",
     nearby |-> "nearby"]

\* The headers that copying the present modifiers among names gives.
CopiedHeaders(options, names) ==
    [h \in {HeaderOfModifier[n] : n \in {m \in names : Truthy(options[m])}} |->
        options[CHOOSE n \in names : HeaderOfModifier[n] = h]]

\* The headers of a call other than token and key.
ModifiersOf(request) ==
    [n \in DOMAIN request.headers \ {"token", "key"} |-> request.headers[n]]

\* C9 as stated: the present modifiers among fields, hidden, filter, session,
\* joins (as collections), validation and permissions are copied into the
\* request headers, and a nearby modifier never is.
C9_Original ==
    pc = "pending" =>
        ModifiersOf(requests[1]) =
            CopiedHeaders(args.options, DOMAIN HeaderOfModifier \ {"nearby"})

\* C9: the present modifiers among fields, hidden, filter, session, joins (as
\* collections), validation, permissions and nearby are copied into the
\* request headers, each under its name and with its value; nearby is copied
\* whenever it is present, and nothing else is copied.
C9_ModifiersCopied ==
    pc = "pending" =>
        ModifiersOf(requests[1]) = CopiedHeaders(args.options, DOMAIN HeaderOfModifier)

\* A call with a nearby modifier went out with a nearby header.
C9_Witness ==
    /\ pc = "pending"
    /\ Truthy(args.options.nearby)
    /\ "nearby" \in DOMAIN requests[1].headers

\* The method names as the log line spells them.
MethodName ==
    [get |-> <<"G", "E", "T">>, post |-> <<"P", "O", "S", "T">>,
     put |-> <<"P", "U", "T">>, delete |-> <<"D", "E", "L", "E", "T", "E">>]

\* The name, as a TLA+ string, of a method given by its characters.
NameOf(method) ==
    CHOOSE n \in DOMAIN MethodName : Len(MethodName[n]) = Len(method)
                                     /\ ToUpperCase(<<method[1]>>) = <<MethodName[n][1]>>
                                     /\ MethodName[n][2] = ToUpperCase(<<method[2]>>)[1]

\* C10: one invocation issues a single HTTP call and never a second one; a
\* failure of that call is logged once, with the method name and the error's
\* message, and the invocation fails with that same error; nothing is logged
\* unless the call failed.
C10_NoRetry ==
    /\ Len(requests) <= 1
    /\ (pc = "rejected" /\ requests # <<>>) =>
          /\ settled \in TransportErrors
          /\ console = << <<MethodName[NameOf(args.method)] \o <<" ", "E", "r", "r", "o", "r", ":">>,
                            settled.s>> >>
    /\ (pc # "rejected" \/ requests = <<>>) => console = <<>>

\* The call failed: one call was issued, one line logged.
C10_Witness ==
    /\ pc = "rejected"
    /\ Len(requests) = 1
    /\ Len(console) = 1
    /\ settled \in TransportErrors

\* The endpoint with its leading "/" removed, when it has one.
WithoutLeadingSlash(endpoint) ==
    IF endpoint # <<>> /\ endpoint[1] = "/" THEN Tail(endpoint) ELSE endpoint

\* C11: for every endpoint Api.sql dispatches POST to "/sql-" followed by the
\* endpoint with its leading "/" removed, every other character kept, later
\* slashes included, and the fingerprint is that of the rewritten path.
C11_SqlPath ==
    (call.fn = <<"s", "q", "l">> /\ pc = "pending") =>
        \E path \in {<<"/", "s", "q", "l", "-">> \o WithoutLeadingSlash(call.endpoint)} :
            /\ requests[1].method = <<"p", "o", "s", "t">>
            /\ requests[1].url = path
            /\ locals.key = getKey(<<"p", "o", "s", "t">>, path, args.options)

(***************************************************************************)
(* Properties of getKey (specification SpecKey).                           *)
(***************************************************************************)
\* The modifiers getKey hashes the presence of.
HashedModifiers ==
    {"fields", "hidden", "filter", "joins", "permissions", "validation", "nearby"}

\* The options of one presence pattern all reduced to one bag: each hashed
\* modifier present holds the empty record, the body is the empty array when
\* it is an array and absent otherwise, every other field is absent.
PresencePattern(options) ==
    [n \in OptionNames |->
        IF n \in HashedModifiers /\ Truthy(options[n]) THEN Obj(<<>>)
        ELSE IF n = "body" /\ IsArray(Or(options.body, Obj(<<>>))) THEN Arr(<<>>)
        ELSE Undefined]

\* C5: operations with the same method, the same first path segment and the
\* same presence pattern of fields, hidden, filter, joins, permissions,
\* validation, nearby and of body-array-ness have the same fingerprint,
\* whatever the values of the modifiers present.  Every operation is compared
\* with the one of its class whose path is the first segment alone and whose
\* options are the bare presence pattern.
C5_PresenceOnly ==
    gkPc = "returned" =>
        gkKey = getKey(gkMethod, FirstSegment(gkUrl), PresencePattern(gkOptions))

\* getKey returned for a filter that is not the empty record, on a path
\* longer than its first segment.
C5_Witness ==
    /\ gkPc = "returned"
    /\ gkOptions.filter = Obj(<<"2">>)
    /\ gkUrl # FirstSegment(gkUrl)

\* The part of a path before its second "/": all of it when it has fewer
\* than two.
UpToSecondSlash(path) ==
    LET slashes == {i \in 1..Len(path) : path[i] = "/"}
    IN IF Cardinality(slashes) < 2 THEN path
       ELSE SubSeq(path, 1,
                   (CHOOSE i \in slashes : Cardinality({j \in slashes : j < i}) = 1) - 1)

\* s begins with prefix.
StartsWith(s, prefix) ==
    Len(s) >= Len(prefix) /\ SubSeq(s, 1, Len(prefix)) = prefix

\* s ends with suffix.
EndsWith(s, suffix) ==
    Len(s) >= Len(suffix) /\ SubSeq(s, Len(s) - Len(suffix) + 1, Len(s)) = suffix

\* C6 as stated, for the paths that begin with "/": the fingerprint uses only
\* the first path segment, so paths that agree up to their second "/" yield
\* the same fingerprint, and the segment embedded in the fingerprint is that
\* common prefix of the path.
C6_Original ==
    (gkPc = "returned" /\ StartsWith(gkUrl, <<"/">>)) =>
        /\ gkKey = getKey(gkMethod, UpToSecondSlash(gkUrl), gkOptions)
        /\ StartsWith(gkKey, gkMethod \o <<":">> \o UpToSecondSlash(gkUrl) \o <<">">>)

\* C6: the fingerprint uses only the first segment of the pathname the URL
\* parser gives for the path (its query string and fragment removed): for
\* every method and modifier bag, paths whose pathnames agree up to their
\* second "/" yield the same fingerprint, and the segment embedded in the
\* fingerprint is that common prefix of the pathname.
C6_FirstSegmentOnly ==
    gkPc = "returned" =>
        /\ gkPathname = UpToSecondSlash(Pathname(gkUrl))
        /\ gkKey = getKey(gkMethod, UpToSecondSlash(Pathname(gkUrl)), gkOptions)
        /\ StartsWith(gkKey,
                      gkMethod \o <<":">> \o UpToSecondSlash(Pathname(gkUrl)) \o <<">">>)

\* getKey returned for "/orders/99" with the segment "/orders".
C6_Witness ==
    /\ gkPc = "returned"
    /\ gkUrl = <<"/", "o", "r", "d", "e", "r", "s", "/", "9", "9">>
    /\ gkPathname = <<"/", "o", "r", "d", "e", "r", "s">>

\* "body_is_array:" followed by the flag.
BodyFlag(b) ==
    <<"b", "o", "d", "y", "_", "i", "s", "_", "a", "r", "r", "a", "y", ":">> \o Bool(b).s

\* The bare GET of "/users/42".
IsBareGetOfUser ==
    /\ gkMethod = <<"g", "e", "t">>
    /\ gkUrl = <<"/", "u", "s", "e", "r", "s", "/", "4", "2">>
    /\ gkOptions = NoOptions

\* C7 as stated: the string getKey passes to the hash always ends with the
\* body-array flag, true for an array body and false otherwise; for GET,
\* "/users/42" and no modifiers it is "/usersbody_is_array:false".
C7_Original ==
    gkPc \in {"built", "returned"} =>
        /\ EndsWith(gkTokenStr, BodyFlag(IsArray(Or(gkOptions.body, Obj(<<>>)))))
        /\ IsBareGetOfUser => gkTokenStr = <<"/", "u", "s", "e", "r", "s">> \o BodyFlag(FALSE)

\* C7: the string getKey passes to the hash ends with the body-array flag
\* "body_is_array:true" when the body is an array, and carries no flag when
\* it is not; for GET, "/users/42" and no modifiers it is "/users".
C7_FlagOnlyForArrays ==
    gkPc \in {"built", "returned"} =>
        /\ IF IsArray(Or(gkOptions.body, Obj(<<>>)))
           THEN EndsWith(gkTokenStr, BodyFlag(TRUE))
           ELSE ~EndsWith(gkTokenStr, BodyFlag(FALSE)) /\ ~EndsWith(gkTokenStr, BodyFlag(TRUE))
        /\ IsBareGetOfUser => gkTokenStr = <<"/", "u", "s", "e", "r", "s">>

\* The string for the bare GET of "/users/42" was built.
C7_Witness ==
    /\ gkPc = "built"
    /\ IsBareGetOfUser
    /\ gkTokenStr = <<"/", "u", "s", "e", "r", "s">>

\* The characters of the names the pieces of the hashed string begin with.
PieceName ==
    [fields |-> <<"f", "i", "e", "l", "d", "s">>,
     hidden |-> <<"h", "i", "d", "d", "e", "n">>,
     filter |-> <<"f", "i", "l", "t", "e", "r">>,
     joins |-> <<"c", "o", "l", "l", "e", "c", "t", "i", "o", "n", "s">>,
     permissions |-> <<"p", "e", "r", "m", "i", "s", "s", "i", "o", "n", "s">>,
     validation |-> <<"v", "a", "l", "i", "d", "a", "t", "i", "o", "n">>,
     nearby |-> <<"n", "e", "a", "r", "b", "y">>]

RECURSIVE PiecesIn(_, _)
\* One piece `<name>:[object Object]` for every modifier of order, a sequence
\* of modifiers, that is present in options, in that order.
PiecesIn(order, options) ==
    IF order = <<>> THEN <<>>
    ELSE (IF Truthy(options[Head(order)])
          THEN PieceName[Head(order)]
               \o <<":", "[", "o", "b", "j", "e", "c", "t", " ",
                     "O", "b", "j", "e", "c", "t", "]">>
          ELSE <<>>)
         \o PiecesIn(Tail(order), options)

\* C15 as stated, up to the flag that ends the string: the string getKey
\* hashes is the first path segment followed by one piece for every present
\* modifier in the order fields, hidden, filter, collections, permissions,
\* validation, nearby, so nearby comes after collections, permissions and
\* validation.
C15_Original ==
    gkPc \in {"built", "returned"} =>
        StartsWith(gkTokenStr,
            gkPathname \o PiecesIn(<<"fields", "hidden", "filter", "joins", "permissions",
                                     "validation", "nearby">>, gkOptions))

\* C15: the string getKey hashes is the first path segment followed by one
\* piece `<name>:<value>` for every present modifier in the order fields,
\* hidden, filter, nearby, collections, permissions, validation, so nearby
\* comes before collections, permissions and validation, followed by the
\* flag "body_is_array:true" when the body is an array and by nothing when
\* it is not.
C15_PieceOrder ==
    gkPc \in {"built", "returned"} =>
        gkTokenStr =
            FirstSegment(gkUrl)
            \o PiecesIn(<<"fields", "hidden", "filter", "nearby", "joins", "permissions",
                          "validation">>, gkOptions)
            \o (IF gkOptions.body.t = "array" THEN BodyFlag(TRUE) ELSE <<>>)

\* The string was built for options with nearby and joins both present.
C15_Witness ==
    /\ gkPc = "built"
    /\ Truthy(gkOptions.nearby)
    /\ Truthy(gkOptions.joins)
    /\ Truthy(gkOptions.fields)

\* What follows `<method>:<pathSegment>>` in the key getKey returned.
HashFragment == SubSeq(gkKey, Len(gkMethod) + Len(gkPathname) + 3, Len(gkKey))

\* C16 as stated: every fingerprint has the form
\* `<method>:<pathSegment>><hashFragment>` and its hash fragment is exactly 8
\* characters long.
C16_Original ==
    gkPc = "returned" =>
        /\ gkKey = gkMethod \o <<":">> \o gkPathname \o <<">">> \o HashFragment
        /\ Len(HashFragment) = 8

\* C16: every fingerprint has the form `<method>:<pathSegment>><hashFragment>`
\* with literal ":" and ">"; the hash fragment is made of Base64 characters
\* and is exactly 8 characters long when the decimal rendering of the hash
\* has at least 4 characters, and 4 characters long when it has 3 or fewer
\* (the hash values from -99 to 999).
C16_FragmentLength ==
    gkPc = "returned" =>
        /\ gkKey = gkMethod \o <<":">> \o gkPathname \o <<">">> \o HashFragment
        /\ \A i \in 1..Len(HashFragment) :
              \/ HashFragment[i] = "="
              \/ \E j \in 1..64 : Base64Alphabet[j] = HashFragment[i]
        /\ Len(HashFragment) = IF Len(CodeToString(gkTokenStr)) >= 4 THEN 8 ELSE 4

\* getKey returned for "/ezkfhpa", whose hash is -87, with the fragment "LTg3".
C16_Witness ==
    /\ gkPc = "returned"
    /\ gkUrl = <<"/", "e", "z", "k", "f", "h", "p", "a">>
    /\ gkOptions = NoOptions
    /\ HashFragment = <<"L", "T", "g", "3">>

(***************************************************************************)
(* Properties of uniqueKey (specification SpecHash).                       *)
(***************************************************************************)
\* acc * 31 + c wrapped to a signed 32-bit integer, for a signed 32-bit acc
\* and 0 <= c < 2^16, computed on the two 16-bit halves of acc.
Times31Plus(acc, c) ==
    LET hi == (acc - (acc % 65536)) \div 65536
        lo == (acc % 65536) * 31 + c
        top == (hi * 31 + (lo \div 65536)) % 65536
    IN (IF top >= 32768 THEN top - 65536 ELSE top) * 65536 + (lo % 65536)

RECURSIVE RollingHash(_, _)
\* The reference rolling hash of the first n characters of input: seeded
\* with the code of the first character, then acc = acc * 31 + c for each
\* character in order, the first included.
RollingHash(input, n) ==
    IF n = 0 THEN CharCode(input[1])
    ELSE Times31Plus(RollingHash(input, n - 1), CharCode(input[n]))

\* C8: for every non-empty input the integer uniqueKey renders is the
\* reference rolling hash, after every iteration and at the end, and lies in
\* the signed 32-bit range; what uniqueKey returns is the first eight
\* characters of the Base64 of its decimal rendering.
C8_RollingHash ==
    (ukInput # <<>> /\ ukPc \in {"loop", "returned"}) =>
        /\ ukCode.v = RollingHash(ukInput, ukI)
        /\ ukCode.v >= MinInt32 /\ ukCode.v <= MaxInt32
        /\ ukPc = "returned" =>
              /\ ukI = Len(ukInput)
              /\ ukResult = SubSeq(Base64(NumberToString(RollingHash(ukInput, Len(ukInput)))),
                                   1, 8)

\* uniqueKey returned for an input whose hash wrapped below zero.
C8_Witness ==
    /\ ukPc = "returned"
    /\ Len(ukInput) = MaxHashLen
    /\ ukCode.v < 0
    /\ ukResult[1] = "L"

(***************************************************************************)
(* Properties of the scanner (specification SpecScan).                     *)
(***************************************************************************)
\* The decoded text has a character that is not a space.
NonBlank(data) == data.t = "string" /\ \E i \in 1..Len(data.s) : data.s[i] # " "

\* The trimmed texts of the non-blank decodes of log, most recent first.
RecentTexts(log) ==
    LET kept == SelectSeq(log, NonBlank)
    IN [i \in 1..Len(kept) |-> Trim(kept[Len(kept) + 1 - i].s)]

\* C12: after any sequence of decodes and history clears the scan history
\* holds at most 5 entries, and their texts are the trimmed texts of the most
\* recent min(n, 5) non-blank decodes since the last clear, most recent
\* first.
C12_LastFiveDecodes ==
    /\ Len(scannedResults) <= 5
    /\ [i \in 1..Len(scannedResults) |-> scannedResults[i].text] =
         SubSeq(RecentTexts(decodes), 1,
                IF Len(RecentTexts(decodes)) < 5 THEN Len(RecentTexts(decodes)) ELSE 5)

\* Six non-blank texts were decoded since the last clear and five are kept.
C12_Witness ==
    /\ Len(RecentTexts(decodes)) = 6
    /\ Len(scannedResults) = 5
    /\ scannedResults[1].text = Trim(decodes[Len(decodes)].s)

\* C13: a DecodeNoise event is never surfaced: it sets no cameraError, does
\* not close the scanner and changes nothing else of the parent; cameraError
\* is set only by a hard failure, that is by a denied permission request or
\* by an error event other than DecodeNoise.
C13_NoiseNotSurfaced ==
    [][/\ Failed(DecodeNoise) =>
             UNCHANGED <<cameraError, showScanner, isLoading, scannedResults>>
       /\ (cameraError' # cameraError /\ cameraError' # Null) =>
             \/ PermissionDenied
             \/ \E err \in ErrorEvents \ {DecodeNoise} : Failed(err)
       /\ (showScanner /\ ~showScanner') =>
             \/ StopScanner
             \/ \E data \in DecodeTexts : Decoded(data)
             \/ \E err \in ErrorEvents \ {DecodeNoise} : Failed(err)]_vars

\* A hard failure reached the parent: the scanner is closed with an error.
C13_Witness ==
    /\ cameraError = UnableToAccess
    /\ ~showScanner
    /\ ~isLoading

\* C20: a decode of a non-blank text prepends exactly one entry holding the
\* trimmed text to the scan history and closes the scanner (showScanner and
\* isLoading false); a decode of null, of the empty string or of spaces only
\* leaves the scan history, showScanner and isLoading unchanged.
C20_DecodeEffect ==
    [][\A data \in DecodeTexts :
          Decoded(data) =>
             IF NonBlank(data)
             THEN /\ scannedResults' # <<>>
                  /\ Head(scannedResults').text = RecentTexts(<<data>>)[1]
                  /\ Tail(scannedResults') =
                       SubSeq(scannedResults, 1, Len(scannedResults') - 1)
                  /\ Len(scannedResults') \in {Len(scannedResults) + 1, 5}
                  /\ ~showScanner'
                  /\ ~isLoading'
             ELSE UNCHANGED <<scannedResults, showScanner, isLoading>>]_vars

\* The text " B " was decoded: the entry "B" heads the history and the
\* scanner is closed.
C20_Witness ==
    /\ decodes # <<>>
    /\ decodes[Len(decodes)] = Str(<<" ", "B", " ">>)
    /\ scannedResults # <<>>
    /\ scannedResults[1].text = <<"B">>
    /\ ~showScanner
    /\ ~isLoading

(***************************************************************************)
(* Properties of the generator (specification SpecGen).                    *)
(***************************************************************************)
\* The content has no character other than spaces.
Blank(text) == \A i \in 1..Len(text) : text[i] = " "

\* C14: whenever the rendering collaborator rejects the text and format of a
\* generateBarcode run, the run ends with generationError set to a non-empty
\* message, barcodeSvgString null and isGenerating false, and the run is
\* over: no exception leaves it unfinished.
C14_RejectionSurfaced ==
    [][(RunResumes /\ ~Accepts(Trim(Head(runs).data), Head(runs).format)) =>
          /\ generationError'.t = "string"
          /\ generationError'.s # <<>>
          /\ barcodeSvgString' = Null
          /\ isGenerating' = FALSE
          /\ runs' = Tail(runs)]_vars

\* A run of EAN13 on a text that is not twelve digits has ended in an error.
C14_Witness ==
    /\ runs = <<>>
    /\ barcodeFormat = EAN13
    /\ generationError # Null
    /\ barcodeSvgString = Null
    /\ ~isGenerating

\* C17: once no run is pending, the displayed barcode is the rendering of
\* the current trimmed content in the current format (none when the format
\* does not take it), and it is null when the current content is blank: a
\* run started for an earlier input never leaves its barcode displayed for a
\* later one.
C17_DisplayedIsCurrent ==
    runs = <<>> =>
        barcodeSvgString =
            IF Blank(barcodeData) \/ ~Accepts(Trim(barcodeData), barcodeFormat)
            THEN Null
            ELSE Render(Trim(barcodeData), barcodeFormat)

\* generateBarcode ran on blank content in this step.
RanOnBlank ==
    \/ \E text \in Contents : Blank(text) /\ SetBarcodeData(text)
    \/ \E format \in BARCODE_FORMATS : Blank(barcodeData) /\ SetBarcodeFormat(format)

\* C18: after generateBarcode runs on blank content both barcodeSvgString and
\* generationError are null: no error message of an earlier input remains.
C18_BlankClearsError ==
    [][RanOnBlank => (barcodeSvgString' = Null /\ generationError' = Null)]_vars

\* C19: isGenerating is true whenever a generateBarcode run that passed the
\* blank-content check has not completed, also when runs overlap, and is
\* false only when no such run is pending.
C19_GeneratingWhilePending ==
    runs # <<>> => isGenerating

(***************************************************************************)
(* Properties of starting the scanner (specification SpecScanFair).        *)
(***************************************************************************)
\* The state a denied permission request ends in.
DeniedState == ~showScanner /\ ~isLoading /\ Truthy(cameraError)

\* C21: startScanner clears any earlier cameraError and sets isLoading; the
\* scanner becomes shown only in the step that grants a permission request
\* that was made; a denied request ends with showScanner false, isLoading
\* false and cameraError set; and, the permission request settling, every
\* startScanner leads to the scanner being shown or to that error state.
C21_StartScannerSettles ==
    /\ [][StartScanner => (cameraError' = Null /\ isLoading')]_vars
    /\ [][(~showScanner /\ showScanner') =>
             (permission = "asked" /\ permission' = "none" /\ isLoading)]_vars
    /\ [][PermissionDenied => DeniedState']_vars
    /\ (permission = "asked") ~> (showScanner \/ DeniedState)

\* A second startScanner came to a denied request and ended in the error
\* state, after the start had cleared the error of a scanner failure.
C21_Witness ==
    /\ permission = "none"
    /\ cameraError = AccessDenied
    /\ ~showScanner
    /\ ~isLoading
    /\ now > 0

====
